---- MODULE Spec2Model ----
(***************************************************************************)
(* Model of the authentication core of server.js: the User collection     *)
(* (schema setters, validators, unique email index, pre-save hashing),     *)
(* the JWT issuer / authenticateToken gate, and the handlers of            *)
(* /api/auth/signup, /api/auth/signin, /api/auth/profile (GET, PUT) and    *)
(* /api/auth/update-medical-info.                                          *)
(*                                                                         *)
(* Strings the code inspects character by character (emails, names) are   *)
(* sequences of one-character strings.  A JSON object is a function from   *)
(* its keys to its values; an absent key is absent from the domain.        *)
(* The clock is Date.now(), in milliseconds.                               *)
(***************************************************************************)
EXTENDS Integers, Sequences, FiniteSets, TLC

VARIABLES
    users,      \* the User collection: a set of documents
    pending,    \* per request slot: a handler suspended at its `await` of the store
    now,        \* Date.now(), milliseconds
    ticks,      \* number of clock advances so far (bounds the run)
    issued,     \* tokens handed to clients so far (what a client can present)
    issuedAt,   \* for the tokens in issued: the Date.now() at which jwt.sign ran
    signedUp,   \* the (normalized email, password) pairs of the signups answered 201
    out         \* the response the handler that just ran is sending (NoResponse
                \* once it is on the wire)

vars == <<users, pending, now, ticks, issued, issuedAt, signedUp, out>>

---------------------------------------------------------------------------
(* Bounds of the model *)

MaxUsers == 2
MaxTokens == 1
MaxTicks == 2

(* Program constants *)

MinPasswordLength == 6
TokenTTLSeconds == 604800

Slots == {"r1", "r2"}
JWT_SECRET == "JWT_SECRET"
NodeEnvs == {"development", "production"}

---------------------------------------------------------------------------
(* String helpers: the schema's `lowercase: true` and `trim: true` setters *)

LowerChar(c) ==
    CASE c = "A" -> "a"
      [] c = "B" -> "b"
      [] OTHER -> c

ToLowerCase(s) == [i \in 1..Len(s) |-> LowerChar(s[i])]

RECURSIVE TrimStart(_)
TrimStart(s) ==
    IF s # <<>> /\ Head(s) = " " THEN TrimStart(Tail(s)) ELSE s

RECURSIVE TrimEnd(_)
TrimEnd(s) ==
    IF s # <<>> /\ s[Len(s)] = " " THEN TrimEnd(SubSeq(s, 1, Len(s) - 1)) ELSE s

Trim(s) == TrimEnd(TrimStart(s))

\* userSchema.email: { lowercase: true, trim: true }
NormalizeEmail(e) == Trim(ToLowerCase(e))

\* JavaScript truthiness of a string: the empty string is falsy
Truthy(s) == s # <<>>
TruthyText(s) == s # ""

---------------------------------------------------------------------------
(* Inputs clients send *)

EmailA == <<"A", "@", "x">>
EmailASpace == <<"a", "@", "x", " ">>
EmailB == <<"b", "@", "x">>
NameAl == <<"A", "l">>
NameB == <<"B">>

EmailInputs == {EmailA, EmailASpace, EmailB}
SignInPasswords == {"secret1", "hunter2"}

SignUpBody(firstName, email, password, confirmPassword) ==
    [firstName |-> firstName, lastName |-> NameB, email |-> email,
     password |-> password, confirmPassword |-> confirmPassword]

SignUpBodies ==
    {SignUpBody(NameAl, e, "secret1", "secret1") : e \in EmailInputs}
        \cup {SignUpBody(NameAl, EmailA, "secret1", "abc"),
              SignUpBody(NameAl, EmailA, "abc", "secret1"),
              SignUpBody(NameAl, EmailA, "abc", "abc"),
              SignUpBody(<<>>, EmailA, "secret1", "secret1"),
              SignUpBody(<<>>, EmailA, "abc", "secret1")}

SignInBodies ==
    [email : EmailInputs, password : SignInPasswords]
        \cup {[email |-> EmailA, password |-> ""]}

---------------------------------------------------------------------------
(* Password Hasher: bcrypt.genSalt / bcrypt.hash / bcrypt.compare.        *)
(* A stored password is a record: a bcrypt digest carries its salt, and   *)
(* a value that was never hashed is marked as such.                        *)

BcryptHash(plain, salt) == [bcrypt |-> TRUE, salt |-> salt, plain |-> plain]
PlainValue(plain) == [bcrypt |-> FALSE, salt |-> 0, plain |-> plain]

\* bcrypt.compare: false for a value that is not a digest
BcryptCompare(candidate, stored) ==
    stored.bcrypt /\ stored.plain = candidate

\* userSchema.methods.comparePassword
comparePassword(user, candidatePassword) ==
    BcryptCompare(candidatePassword, user.password)

---------------------------------------------------------------------------
(* The User collection *)

NoNotes == ""
NoGender == ""

\* userSchema.gender: enum
GenderEnum == {"male", "female", "other"}

\* (variant: a query that is not cast through the setters)
FindOneUncast(email) == {u \in users : u.email = email}

\* User.findOne({ email }): the query value is cast through the schema's setters
FindOne(email) == {u \in users : u.email = NormalizeEmail(email)}

\* User.findById
FindById(id) == {u \in users : u.id = id}

\* new User({...}): casting applies the setters (trim, lowercase), defaults
NewDocument(id, body) ==
    [id |-> id,
     firstName |-> Trim(body.firstName),
     lastName |-> Trim(body.lastName),
     email |-> NormalizeEmail(body.email),
     password |-> PlainValue(body.password),
     gender |-> NoGender,
     notes |-> NoNotes,
     preferredLanguage |-> "en"]

\* the _id of the new document: one no stored document has
NewUser(body) == NewDocument(Cardinality(users) + 1, body)

\* schema validators: required, minlength
ValidDoc(doc) ==
    /\ doc.firstName # <<>>
    /\ doc.lastName # <<>>
    /\ doc.email # <<>>
    /\ doc.password.plain # ""
    /\ (~doc.password.bcrypt => Len(doc.password.plain) >= MinPasswordLength)

\* (variant: a collection without the unique index)
NoUniqueIndex(doc) == FALSE

\* the unique index on email: would storing doc violate it?
DuplicateKey(doc) == \E u \in users : u.id # doc.id /\ u.email = doc.email

\* bcrypt.genSalt(12): a salt no other document's digest carries
GenSalt(doc) == doc.id

\* userSchema.pre('save'): hash the (modified) password with a fresh salt
PreSave(doc) ==
    [doc EXCEPT !.password = BcryptHash(doc.password.plain, GenSalt(doc))]

\* (variant: a query without the projection)
SelectAll(doc) == doc

\* .select('-password')
SelectMinusPassword(doc) == [k \in DOMAIN doc \ {"password"} |-> doc[k]]

---------------------------------------------------------------------------
(* Token Issuer: jwt.sign(payload, secret, { expiresIn: '7d' })           *)

UnixSeconds(ms) == ms \div 1000

Signature(key, userId, email, iat, exp) == <<key, userId, email, iat, exp>>

\* (variant: expiresIn given as 7 seconds)
JwtSignSevenSeconds(userId, email, key, t) ==
    LET iat == UnixSeconds(t)
        exp == iat + 7
    IN [wellFormed |-> TRUE, userId |-> userId, email |-> email, iat |-> iat,
        exp |-> exp, sig |-> Signature(key, userId, email, iat, exp)]

\* (variant: jwt.sign with noTimestamp and a fixed expiry claim)
JwtSignNoTimestamp(userId, email, key, t) ==
    [wellFormed |-> TRUE, userId |-> userId, email |-> email, iat |-> 0,
     exp |-> TokenTTLSeconds,
     sig |-> Signature(key, userId, email, 0, TokenTTLSeconds)]

JwtSign(userId, email, key, t) ==
    LET iat == UnixSeconds(t)
        exp == iat + TokenTTLSeconds
    IN [wellFormed |-> TRUE, userId |-> userId, email |-> email, iat |-> iat,
        exp |-> exp, sig |-> Signature(key, userId, email, iat, exp)]

\* what the client keeps of the tokens it is handed
Remember(tok) ==
    IF Cardinality(issued) < MaxTokens THEN issued \cup {tok} ELSE issued

\* the instant at which each remembered token was first signed
RememberAt(tok, t) ==
    IF Cardinality(issued) < MaxTokens /\ tok \notin issued
    THEN issuedAt \cup {[token |-> tok, at |-> t]}
    ELSE issuedAt

---------------------------------------------------------------------------
(* Token Verifier: jwt.verify(token, secret, callback)                    *)

\* (variant: jwt.decode in place of jwt.verify: the signature is not checked)
JwtDecodeOnly(token, key, t) ==
    IF ~token.wellFormed THEN "jwt malformed"
    ELSE IF UnixSeconds(t) >= token.exp THEN "jwt expired"
    ELSE "none"

\* the error jwt.verify hands to its callback ("none": no error)
JwtVerifyError(token, key, t) ==
    IF ~token.wellFormed THEN "jwt malformed"
    ELSE IF token.sig # Signature(key, token.userId, token.email, token.iat, token.exp)
         THEN "invalid signature"
    ELSE IF UnixSeconds(t) >= token.exp THEN "jwt expired"
    ELSE "none"

\* the decoded payload jwt.verify hands to its callback
JwtDecoded(token) ==
    [userId |-> token.userId, email |-> token.email, iat |-> token.iat, exp |-> token.exp]

---------------------------------------------------------------------------
(* Responses: res.status(n).json(body).  Beside what goes on the wire     *)
(* (status, body) a response records the route (kind), the place in the   *)
(* handler that sent it (branch), the request it answers (req), the       *)
(* req.user the gate attached (user) and the NODE_ENV a catch block read. *)

NoUser == [userId |-> 0, email |-> <<>>, iat |-> 0, exp |-> 0]

Response(kind, branch, status, body) ==
    [kind |-> kind, branch |-> branch, status |-> status, body |-> body,
     req |-> <<>>, user |-> NoUser, env |-> "any"]

NoResponse == Response("none", "none", 0, <<>>)

Answer(req, user, response) == [response EXCEPT !.req = req, !.user = user]

\* the event loop runs one handler step at a time: the next one starts when
\* the response of the last is written
Ready == out = NoResponse

\* res.json(...): the response leaves the process
ResponseSent ==
    /\ out # NoResponse
    /\ out' = NoResponse
    /\ UNCHANGED <<users, pending, now, ticks, issued, issuedAt, signedUp>>

\* error: process.env.NODE_ENV === 'development' ? error.message : undefined
\* (JSON.stringify drops a key whose value is undefined).  nodeEnv is the
\* value of process.env.NODE_ENV the catch block reads; `env` records it.
InternalServerError(kind, branch, errorMessage, nodeEnv) ==
    [Response(kind, branch, 500,
              IF nodeEnv = "development"
              THEN ("message" :> "Internal server error") @@ ("error" :> errorMessage)
              ELSE "message" :> "Internal server error")
     EXCEPT !.env = nodeEnv]

\* the userData object of signup and signin
UserData(user) ==
    [id |-> user.id, firstName |-> user.firstName, lastName |-> user.lastName,
     email |-> user.email, preferredLanguage |-> user.preferredLanguage]

---------------------------------------------------------------------------
(* Token Verifier / Auth Gate                                              *)

\* req.headers: an absent header is an absent key; a header value is given
\* by its space-separated parts (authHeader.split(' '))
NoHeaders == [k \in {} |-> <<>>]
Authorization(parts) == "authorization" :> parts

\* const token = authHeader && authHeader.split(' ')[1]
HasBearerToken(headers) ==
    "authorization" \in DOMAIN headers /\ Len(headers["authorization"]) >= 2

BearerToken(headers) == headers["authorization"][2]

\* (variant: a gate that lets a request without a token through)
authenticateTokenOptional(headers, t) ==
    IF ~HasBearerToken(headers)
    THEN [verdict |-> "next", branch |-> "next", status |-> 0, body |-> <<>>,
          user |-> NoUser]
    ELSE IF JwtVerifyError(BearerToken(headers), JWT_SECRET, t) # "none"
    THEN [verdict |-> "reject", branch |-> "gate_403", status |-> 403,
          body |-> "message" :> "Invalid or expired token", user |-> NoUser]
    ELSE [verdict |-> "next", branch |-> "next", status |-> 0, body |-> <<>>,
          user |-> JwtDecoded(BearerToken(headers))]

\* (variant: a gate that answers with err.message)
authenticateTokenVerbose(headers, t) ==
    IF ~HasBearerToken(headers)
    THEN [verdict |-> "reject", branch |-> "gate_401", status |-> 401,
          body |-> "message" :> "Access token required", user |-> NoUser]
    ELSE IF JwtVerifyError(BearerToken(headers), JWT_SECRET, t) # "none"
    THEN [verdict |-> "reject", branch |-> "gate_403", status |-> 403,
          body |-> "message" :> JwtVerifyError(BearerToken(headers), JWT_SECRET, t),
          user |-> NoUser]
    ELSE [verdict |-> "next", branch |-> "next", status |-> 0, body |-> <<>>,
          user |-> JwtDecoded(BearerToken(headers))]

\* (variant: a gate that also looks the account up and refuses a token whose
\* account no longer carries the token's email)
authenticateTokenRevoking(headers, t) ==
    IF ~HasBearerToken(headers)
    THEN [verdict |-> "reject", branch |-> "gate_401", status |-> 401,
          body |-> "message" :> "Access token required", user |-> NoUser]
    ELSE IF \/ JwtVerifyError(BearerToken(headers), JWT_SECRET, t) # "none"
            \/ ~\E u \in users : /\ u.id = BearerToken(headers).userId
                                 /\ u.email = BearerToken(headers).email
    THEN [verdict |-> "reject", branch |-> "gate_403", status |-> 403,
          body |-> "message" :> "Invalid or expired token", user |-> NoUser]
    ELSE [verdict |-> "next", branch |-> "next", status |-> 0, body |-> <<>>,
          user |-> JwtDecoded(BearerToken(headers))]

\* authenticateToken: verdict "next" (req.user attached, the handler runs) or
\* a terminal response
authenticateToken(headers, t) ==
    IF ~HasBearerToken(headers)
    THEN [verdict |-> "reject", branch |-> "gate_401", status |-> 401,
          body |-> "message" :> "Access token required", user |-> NoUser]
    ELSE IF JwtVerifyError(BearerToken(headers), JWT_SECRET, t) # "none"
    THEN [verdict |-> "reject", branch |-> "gate_403", status |-> 403,
          body |-> "message" :> "Invalid or expired token", user |-> NoUser]
    ELSE [verdict |-> "next", branch |-> "next", status |-> 0, body |-> <<>>,
          user |-> JwtDecoded(BearerToken(headers))]

\* tokens a client can put in a header: those it was handed, those with an
\* altered payload, one signed with another key, one that is no JWT at all
Tampered(tok) == [tok EXCEPT !.userId = 3 - tok.userId]
Forged(t) == JwtSign(1, NormalizeEmail(EmailA), "attacker-key", t)
Malformed ==
    [wellFormed |-> FALSE, userId |-> 0, email |-> <<>>, iat |-> 0, exp |-> 0, sig |-> <<>>]

PresentableTokens ==
    issued \cup {Tampered(tok) : tok \in issued} \cup {Forged(now), Malformed}

HeaderInputs ==
    {NoHeaders, Authorization(<<"Bearer">>)}
        \cup {Authorization(<<"Bearer", tok>>) : tok \in PresentableTokens}

---------------------------------------------------------------------------
(* POST /api/auth/signup                                                   *)

Idle(s) == pending[s] = <<>>

\* (variant: a handler that does not compare password and confirmPassword)
SignUpValidationNoConfirm(body) ==
    IF ~Truthy(body.firstName) \/ ~Truthy(body.lastName)
         \/ ~Truthy(body.email) \/ ~TruthyText(body.password)
    THEN "All required fields must be provided"
    ELSE IF Len(body.password) < MinPasswordLength
    THEN "Password must be at least 6 characters long"
    ELSE "ok"

\* (variant: a handler that checks the length before the confirmation)
SignUpValidationLengthFirst(body) ==
    IF ~Truthy(body.firstName) \/ ~Truthy(body.lastName)
         \/ ~Truthy(body.email) \/ ~TruthyText(body.password)
    THEN "All required fields must be provided"
    ELSE IF Len(body.password) < MinPasswordLength
    THEN "Password must be at least 6 characters long"
    ELSE IF body.password # body.confirmPassword THEN "Passwords do not match"
    ELSE "ok"

\* the validations of the handler, in its order; "ok" when all pass
SignUpValidation(body) ==
    IF ~Truthy(body.firstName) \/ ~Truthy(body.lastName)
         \/ ~Truthy(body.email) \/ ~TruthyText(body.password)
    THEN "All required fields must be provided"
    ELSE IF body.password # body.confirmPassword THEN "Passwords do not match"
    ELSE IF Len(body.password) < MinPasswordLength
    THEN "Password must be at least 6 characters long"
    ELSE "ok"

\* if (existingUser) return res.status(400).json(...)
SignUpEmailExists ==
    Response("signup", "exists", 400, "message" :> "User with this email already exists")

\* catch (error) of the handler, reached by a failed user.save()
SignUpSaveFailed(branch, errorMessage, nodeEnv) ==
    InternalServerError("signup", branch, errorMessage, nodeEnv)

\* from the start of the handler to `await user.save()` (or an early return)
SignUpCheck(s, body) ==
    /\ Ready
    /\ Idle(s)
    /\ IF SignUpValidation(body) # "ok"
       THEN /\ out' = Answer(body, NoUser,
                        Response("signup", "validation", 400,
                                 "message" :> SignUpValidation(body)))
            /\ UNCHANGED pending
       ELSE IF FindOne(body.email) # {}
       THEN /\ out' = Answer(body, NoUser, SignUpEmailExists)
            /\ UNCHANGED pending
       ELSE /\ pending' = [pending EXCEPT ![s] = <<body>>]
            /\ UNCHANGED out
    /\ UNCHANGED <<users, now, ticks, issued, issuedAt, signedUp>>

\* user.save() and the rest of the handler: validation, pre-save hashing,
\* the insert against the unique index, jwt.sign, the 201 response; a failed
\* save lands in the catch block
SignUpSave(s, nodeEnv) ==
    /\ Ready
    /\ ~Idle(s)
    /\ Cardinality(users) < MaxUsers
    /\ LET body == pending[s][1]
           doc == NewUser(body)
           saved == PreSave(doc)
           token == JwtSign(saved.id, saved.email, JWT_SECRET, now)
       IN IF ~ValidDoc(doc)
          THEN /\ out' = Answer(body, NoUser,
                           SignUpSaveFailed("save_validation",
                                            "User validation failed", nodeEnv))
               /\ UNCHANGED <<users, issued, issuedAt, signedUp>>
          ELSE IF DuplicateKey(saved)
          THEN /\ out' = Answer(body, NoUser,
                           SignUpSaveFailed("save_duplicate",
                                            "E11000 duplicate key error", nodeEnv))
               /\ UNCHANGED <<users, issued, issuedAt, signedUp>>
          ELSE /\ users' = users \cup {saved}
               /\ issued' = Remember(token)
               /\ issuedAt' = RememberAt(token, now)
               /\ signedUp' = signedUp \cup {[email |-> saved.email, password |-> body.password]}
               /\ out' = Answer(body, NoUser,
                           Response("signup", "created", 201,
                                    ("message" :> "User created successfully")
                                      @@ ("token" :> token)
                                      @@ ("user" :> UserData(saved))))
    /\ pending' = [pending EXCEPT ![s] = <<>>]
    /\ UNCHANGED <<now, ticks>>

---------------------------------------------------------------------------
(* POST /api/auth/signin                                                   *)

\* (variant: a distinct answer for an unknown email)
SignInUserNotFound ==
    Response("signin", "no_user", 404, "message" :> "User not found")

\* if (!user) return res.status(401).json(...)
SignInNoUser ==
    Response("signin", "no_user", 401, "message" :> "Invalid email or password")

\* if (!isMatch) return res.status(401).json(...)
SignInBadPassword ==
    Response("signin", "bad_password", 401, "message" :> "Invalid email or password")

SignIn(body) ==
    /\ Ready
    /\ IF ~Truthy(body.email) \/ ~TruthyText(body.password)
       THEN /\ out' = Answer(body, NoUser,
                        Response("signin", "validation", 400,
                                 "message" :> "Email and password are required"))
            /\ UNCHANGED <<issued, issuedAt, signedUp>>
       ELSE IF FindOne(body.email) = {}
       THEN /\ out' = Answer(body, NoUser, SignInNoUser)
            /\ UNCHANGED <<issued, issuedAt, signedUp>>
       ELSE LET user == CHOOSE u \in FindOne(body.email) : TRUE
                token == JwtSign(user.id, user.email, JWT_SECRET, now)
            IN IF ~comparePassword(user, body.password)
               THEN /\ out' = Answer(body, NoUser, SignInBadPassword)
                    /\ UNCHANGED <<issued, issuedAt, signedUp>>
               ELSE /\ issued' = Remember(token)
                    /\ issuedAt' = RememberAt(token, now)
                    /\ UNCHANGED signedUp
                    /\ out' = Answer(body, NoUser,
                                Response("signin", "ok", 200,
                                         ("message" :> "Login successful")
                                           @@ ("token" :> token)
                                           @@ ("user" :> UserData(user))))
    /\ UNCHANGED <<users, pending, now, ticks>>

---------------------------------------------------------------------------
(* User.findByIdAndUpdate(id, update, { new: true, runValidators: true }) *)

SchemaPaths == {"firstName", "lastName", "email", "password", "gender", "notes"}
EmptyObject == [k \in {} |-> <<>>]

Restrict(obj, keys) == [k \in DOMAIN obj \cap keys |-> obj[k]]

\* delete obj[key]
Delete(obj, key) == [k \in DOMAIN obj \ {key} |-> obj[k]]

\* the update document as the driver receives it: keys that are not update
\* operators are gathered under $set, beside what the caller put in $set
SetDocument(update) ==
    Restrict(update, SchemaPaths)
        @@ (IF "$set" \in DOMAIN update
            THEN Restrict(update["$set"], SchemaPaths)
            ELSE EmptyObject)

\* casting of an updated value: the setters run, nothing hashes a password
CastValue(path, value) ==
    CASE path = "email" -> NormalizeEmail(value)
      [] path \in {"firstName", "lastName"} -> Trim(value)
      [] path = "password" -> PlainValue(value)
      [] OTHER -> value

ApplySet(doc, setDoc) ==
    [k \in DOMAIN doc |-> IF k \in DOMAIN setDoc THEN CastValue(k, setDoc[k]) ELSE doc[k]]

\* runValidators: the validators of the paths the update sets
ValidUpdate(setDoc) ==
    /\ "firstName" \in DOMAIN setDoc => CastValue("firstName", setDoc["firstName"]) # <<>>
    /\ "lastName" \in DOMAIN setDoc => CastValue("lastName", setDoc["lastName"]) # <<>>
    /\ "email" \in DOMAIN setDoc => CastValue("email", setDoc["email"]) # <<>>
    /\ "password" \in DOMAIN setDoc => Len(setDoc["password"]) >= MinPasswordLength
    /\ "gender" \in DOMAIN setDoc => setDoc["gender"] \in GenderEnum

\* outcome of the call: "validation" and "duplicate" are thrown errors,
\* "null" is no document with that id, "ok" the update applied
UpdateOutcome(id, update) ==
    LET setDoc == SetDocument(update)
    IN IF ~ValidUpdate(setDoc) THEN "validation"
       ELSE IF FindById(id) = {} THEN "null"
       ELSE IF DuplicateKey(ApplySet(CHOOSE u \in FindById(id) : TRUE, setDoc))
       THEN "duplicate"
       ELSE "ok"

\* error.message of the error the call throws
UpdateErrorMessage(outcome) ==
    IF outcome = "duplicate" THEN "E11000 duplicate key error"
    ELSE "Validation failed: gender: robot is not a valid enum value for path gender."

Updated(id, update) ==
    ApplySet(CHOOSE u \in FindById(id) : TRUE, SetDocument(update))

\* (variant: updateMany in place of findByIdAndUpdate)
UsersAfterUpdateMany(id, update) ==
    {ApplySet(u, SetDocument(update)) : u \in users}

UsersAfterUpdate(id, update) ==
    (users \ FindById(id)) \cup {Updated(id, update)}

---------------------------------------------------------------------------
(* Protected routes: authenticateToken, then the handler                  *)

Request(headers, body) == [headers |-> headers, body |-> body]

\* the gate answers from the headers alone: the body is not looked at
Rejected(kind, headers, gate) ==
    Answer(Request(headers, EmptyObject), gate.user,
           Response(kind, gate.branch, gate.status, gate.body))

\* GET /api/auth/profile
GetProfile(headers) ==
    LET gate == authenticateToken(headers, now)
        req == Request(headers, EmptyObject)
    IN /\ Ready
       /\ IF gate.verdict = "reject"
          THEN out' = Rejected("get_profile", headers, gate)
          ELSE IF FindById(gate.user.userId) = {}
          THEN out' = Answer(req, gate.user,
                        Response("get_profile", "not_found", 404,
                                 "message" :> "User not found"))
          ELSE out' = Answer(req, gate.user,
                        Response("get_profile", "ok", 200,
                          "user" :> SelectMinusPassword(
                                      CHOOSE u \in FindById(gate.user.userId) : TRUE)))
       /\ UNCHANGED <<users, pending, now, ticks, issued, issuedAt, signedUp>>

\* delete updates.password; delete updates.email
StripCredentials(updates) == Delete(Delete(updates, "password"), "email")

\* PUT /api/auth/profile
UpdateProfile(headers, body) ==
    LET gate == authenticateToken(headers, now)
        req == Request(headers, body)
        id == gate.user.userId
        updates == StripCredentials(body)
        outcome == UpdateOutcome(id, updates)
    IN /\ Ready
       /\ IF gate.verdict = "reject"
          THEN /\ out' = Rejected("update_profile", headers, gate)
               /\ UNCHANGED users
          ELSE IF outcome \in {"validation", "duplicate"}
          THEN /\ out' = Answer(req, gate.user,
                           Response("update_profile", "error", 500,
                                    "message" :> "Internal server error"))
               /\ UNCHANGED users
          ELSE IF outcome = "null"
          THEN /\ out' = Answer(req, gate.user,
                           Response("update_profile", "not_found", 404,
                                    "message" :> "User not found"))
               /\ UNCHANGED users
          ELSE /\ users' = UsersAfterUpdate(id, updates)
               /\ out' = Answer(req, gate.user,
                           Response("update_profile", "ok", 200,
                             ("message" :> "Profile updated successfully")
                               @@ ("user" :> SelectMinusPassword(Updated(id, updates)))))
       /\ UNCHANGED <<pending, now, ticks, issued, issuedAt, signedUp>>

\* the flat request fields the handler copies into updateData
MedicalFields == {"gender", "notes"}

MedicalUpdateData(medicalData) ==
    [k \in {f \in DOMAIN medicalData \cap MedicalFields : TruthyText(medicalData[f])}
        |-> medicalData[k]]

\* PUT /api/auth/update-medical-info
UpdateMedicalInfo(headers, body) ==
    LET gate == authenticateToken(headers, now)
        req == Request(headers, body)
        id == gate.user.userId
        update == "$set" :> MedicalUpdateData(body)
        outcome == UpdateOutcome(id, update)
    IN /\ Ready
       /\ IF gate.verdict = "reject"
          THEN /\ out' = Rejected("update_medical", headers, gate)
               /\ UNCHANGED users
          ELSE IF outcome \in {"validation", "duplicate"}
          THEN /\ out' = Answer(req, gate.user,
                           Response("update_medical", "error", 500,
                             ("message" :> "Error updating medical information")
                               @@ ("error" :> UpdateErrorMessage(outcome))))
               /\ UNCHANGED users
          ELSE IF outcome = "null"
          THEN /\ out' = Answer(req, gate.user,
                           Response("update_medical", "not_found", 404,
                                    "message" :> "User not found"))
               /\ UNCHANGED users
          ELSE /\ users' = UsersAfterUpdate(id, update)
               /\ out' = Answer(req, gate.user,
                           Response("update_medical", "ok", 200,
                                    SelectMinusPassword(Updated(id, update))))
       /\ UNCHANGED <<pending, now, ticks, issued, issuedAt, signedUp>>

---------------------------------------------------------------------------
(* The clock                                                               *)

\* half a second, and half a second less than the lifetime of a token
ClockSteps == {500, TokenTTLSeconds * 1000 - 500}

Tick(step) ==
    /\ Ready
    /\ ticks < MaxTicks
    /\ now' = now + step
    /\ ticks' = ticks + 1
    /\ UNCHANGED <<users, pending, issued, issuedAt, signedUp, out>>

---------------------------------------------------------------------------
(* Request bodies of the protected routes                                  *)

ProfileBodies ==
    {("notes" :> "n1") @@ ("password" :> "newpass1") @@ ("email" :> EmailB),
     "$set" :> (("password" :> "newpass1") @@ ("email" :> EmailB))}

MedicalBodies ==
    {("notes" :> "n1") @@ ("password" :> "newpass1"),
     "gender" :> "robot"}

---------------------------------------------------------------------------
(* The system                                                              *)

Init ==
    /\ users = {}
    /\ pending = [s \in Slots |-> <<>>]
    /\ now = 0
    /\ ticks = 0
    /\ issued = {}
    /\ issuedAt = {}
    /\ signedUp = {}
    /\ out = NoResponse

Next ==
    \/ \E s \in Slots, body \in SignUpBodies : SignUpCheck(s, body)
    \/ \E s \in Slots, nodeEnv \in NodeEnvs : SignUpSave(s, nodeEnv)
    \/ \E body \in SignInBodies : SignIn(body)
    \/ \E headers \in HeaderInputs : GetProfile(headers)
    \/ \E headers \in HeaderInputs, body \in ProfileBodies : UpdateProfile(headers, body)
    \/ \E headers \in HeaderInputs, body \in MedicalBodies : UpdateMedicalInfo(headers, body)
    \/ \E step \in ClockSteps : Tick(step)
    \/ ResponseSent

Spec == Init /\ [][Next]_vars

---------------------------------------------------------------------------
(* Requests to the protected routes in flight together.  A handler runs   *)
(* from the gate to its `await` of the store in one step of the event     *)
(* loop (req.user is attached and read, the query is sent) and from the   *)
(* store's answer to the response in another; steps of other requests     *)
(* come in between.                                                        *)

InFlight(kind, req, user) == [kind |-> kind, req |-> req, user |-> user]

\* authenticateToken, next(), and the handler up to its await
BeginRequest(s, kind, headers, body) ==
    LET gate == authenticateToken(headers, now)
        req == Request(headers, body)
    IN /\ Ready
       /\ Idle(s)
       /\ IF gate.verdict = "reject"
          THEN /\ out' = Rejected(kind, headers, gate)
               /\ UNCHANGED pending
          ELSE /\ pending' = [pending EXCEPT ![s] = <<InFlight(kind, req, gate.user)>>]
               /\ UNCHANGED out
       /\ UNCHANGED <<users, now, ticks, issued, issuedAt, signedUp>>

\* (variant: the gate keeps the identity in one module-level variable in
\* place of req.user: a handler reads the identity of the first request in flight)
SharedUser(s) ==
    IF ~Idle("r1") THEN pending["r1"][1].user ELSE pending[s][1].user

\* req.user as the handler of the request in slot s reads it
RequestUser(s) == pending[s][1].user

\* GET /api/auth/profile: the store answers, the handler responds
CompleteGetProfile(s) ==
    /\ Ready
    /\ ~Idle(s)
    /\ pending[s][1].kind = "get_profile"
    /\ LET req == pending[s][1].req
           user == RequestUser(s)
       IN IF FindById(user.userId) = {}
          THEN out' = Answer(req, user,
                        Response("get_profile", "not_found", 404,
                                 "message" :> "User not found"))
          ELSE out' = Answer(req, user,
                        Response("get_profile", "ok", 200,
                          "user" :> SelectMinusPassword(
                                      CHOOSE u \in FindById(user.userId) : TRUE)))
    /\ pending' = [pending EXCEPT ![s] = <<>>]
    /\ UNCHANGED <<users, now, ticks, issued, issuedAt, signedUp>>

\* PUT /api/auth/profile: the store applies the update, the handler responds
CompleteUpdateProfile(s) ==
    /\ Ready
    /\ ~Idle(s)
    /\ pending[s][1].kind = "update_profile"
    /\ LET req == pending[s][1].req
           user == RequestUser(s)
           id == user.userId
           updates == StripCredentials(req.body)
           outcome == UpdateOutcome(id, updates)
       IN IF outcome \in {"validation", "duplicate"}
          THEN /\ out' = Answer(req, user,
                           Response("update_profile", "error", 500,
                                    "message" :> "Internal server error"))
               /\ UNCHANGED users
          ELSE IF outcome = "null"
          THEN /\ out' = Answer(req, user,
                           Response("update_profile", "not_found", 404,
                                    "message" :> "User not found"))
               /\ UNCHANGED users
          ELSE /\ users' = UsersAfterUpdate(id, updates)
               /\ out' = Answer(req, user,
                           Response("update_profile", "ok", 200,
                             ("message" :> "Profile updated successfully")
                               @@ ("user" :> SelectMinusPassword(Updated(id, updates)))))
    /\ pending' = [pending EXCEPT ![s] = <<>>]
    /\ UNCHANGED <<now, ticks, issued, issuedAt, signedUp>>

\* PUT /api/auth/update-medical-info: the store applies the update, the
\* handler responds
CompleteUpdateMedicalInfo(s) ==
    /\ Ready
    /\ ~Idle(s)
    /\ pending[s][1].kind = "update_medical"
    /\ LET req == pending[s][1].req
           user == RequestUser(s)
           id == user.userId
           update == "$set" :> MedicalUpdateData(req.body)
           outcome == UpdateOutcome(id, update)
       IN IF outcome \in {"validation", "duplicate"}
          THEN /\ out' = Answer(req, user,
                           Response("update_medical", "error", 500,
                             ("message" :> "Error updating medical information")
                               @@ ("error" :> UpdateErrorMessage(outcome))))
               /\ UNCHANGED users
          ELSE IF outcome = "null"
          THEN /\ out' = Answer(req, user,
                           Response("update_medical", "not_found", 404,
                                    "message" :> "User not found"))
               /\ UNCHANGED users
          ELSE /\ users' = UsersAfterUpdate(id, update)
               /\ out' = Answer(req, user,
                           Response("update_medical", "ok", 200,
                                    SelectMinusPassword(Updated(id, update))))
    /\ pending' = [pending EXCEPT ![s] = <<>>]
    /\ UNCHANGED <<now, ticks, issued, issuedAt, signedUp>>

\* the collection lives in an external store: a document is removed there,
\* outside this program (the case the handlers' `if (!user)` answers)
DocumentRemoved(id) ==
    /\ Ready
    /\ FindById(id) # {}
    /\ users' = users \ FindById(id)
    /\ UNCHANGED <<pending, now, ticks, issued, issuedAt, signedUp, out>>

\* the bodies a client sends to each protected route
BodiesOf(kind) ==
    CASE kind = "get_profile" -> {EmptyObject}
      [] kind = "update_profile" -> ProfileBodies
      [] kind = "update_medical" -> MedicalBodies

\* two accounts signed up at time 0, each client holding its signup token
SignedUpBodies ==
    {SignUpBody(NameAl, EmailA, "secret1", "secret1"),
     SignUpBody(NameAl, EmailB, "secret1", "secret1")}

AccountOf(body) ==
    PreSave(NewDocument(IF body.email = EmailA THEN 1 ELSE 2, body))

TokenOf(body) ==
    JwtSign(AccountOf(body).id, AccountOf(body).email, JWT_SECRET, 0)

InitSignedUp ==
    /\ users = {AccountOf(body) : body \in SignedUpBodies}
    /\ pending = [s \in Slots |-> <<>>]
    /\ now = 0
    /\ ticks = 0
    /\ issued = {TokenOf(body) : body \in SignedUpBodies}
    /\ issuedAt = {[token |-> TokenOf(body), at |-> 0] : body \in SignedUpBodies}
    /\ signedUp = {[email |-> AccountOf(body).email, password |-> body.password] :
                     body \in SignedUpBodies}
    /\ out = NoResponse

NextInterleaved ==
    \/ \E s \in Slots, kind \in {"get_profile", "update_profile", "update_medical"} :
          \E headers \in {NoHeaders} \cup {Authorization(<<"Bearer", tok>>) : tok \in issued},
             body \in BodiesOf(kind) :
                BeginRequest(s, kind, headers, body)
    \/ \E s \in Slots : CompleteGetProfile(s)
    \/ \E s \in Slots : CompleteUpdateProfile(s)
    \/ \E s \in Slots : CompleteUpdateMedicalInfo(s)
    \/ \E id \in 1..2 : DocumentRemoved(id)
    \/ \E step \in ClockSteps : Tick(step)
    \/ ResponseSent

SpecInterleaved == InitSignedUp /\ [][NextInterleaved]_vars

---------------------------------------------------------------------------
(* Properties                                                              *)

\* what the client sees of a response
Wire(r) == [status |-> r.status, body |-> r.body]

ProtectedKinds == {"get_profile", "update_profile", "update_medical"}
HandlerBranches == {"ok", "not_found", "error"}

\* the request carries no bearer token
NoBearer(headers) ==
    "authorization" \notin DOMAIN headers \/ Len(headers["authorization"]) < 2

SevenDays == 7 * 24 * 60 * 60

\* the clock (in ms) reads strictly before / strictly after the second sec
BeforeSecond(t, sec) == UnixSeconds(t) < sec
AfterSecond(t, sec) ==
    UnixSeconds(t) > sec \/ (UnixSeconds(t) = sec /\ t % 1000 > 0)

DuplicateInsertIsConflict ==
    (out.kind = "signup" /\ out.branch = "save_duplicate")
        => Wire(out) = Wire(SignUpEmailExists)

\* C3: a signup that starts when an account with the same normalized email
\* is already stored (its email differing at most in case and surrounding
\* whitespace) is answered with the conflict response and stores nothing:
\* exactly one account has that email afterwards.
SequentialDuplicateSignUp ==
    [][\A s \in Slots, body \in SignUpBodies :
         (/\ out'.kind \in {"signup", "none"}
          /\ SignUpCheck(s, body)
          /\ SignUpValidation(body) = "ok"
          /\ \E u \in users : NormalizeEmail(u.email) = NormalizeEmail(body.email))
         => /\ Wire(out') =
                 [status |-> 400,
                  body |-> "message" :> "User with this email already exists"]
            /\ users' = users
            /\ pending' = pending
            /\ Cardinality({u \in users' :
                   NormalizeEmail(u.email) = NormalizeEmail(body.email)}) = 1]_vars

\* "a@x " is refused while the account of "A@x" is the only one stored
SecondSpellingRefused ==
    /\ out.kind = "signup"
    /\ out.branch = "exists"
    /\ out.req.email = EmailASpace
    /\ Cardinality(users) = 1
    /\ \A u \in users : u.email = NormalizeEmail(EmailA)

\* C4: whatever patch the client sends, updateProfile leaves the stored
\* password digest and email of every account as they were.
UpdateProfileKeepsCredentials ==
    [][out'.kind = "update_profile"
         => \A u \in users :
              \E v \in users' :
                 v.id = u.id /\ v.password = u.password /\ v.email = u.email]_vars

NoTokenIsTerminal ==
    [][(out'.kind \in ProtectedKinds /\ NoBearer(out'.req.headers))
         => /\ out'.status = 401
            /\ out'.branch = "gate_401"
            /\ out'.user = NoUser
            /\ UNCHANGED <<users, pending, issued>>]_vars

\* an update without a token, with an account in the store it could have changed
UpdateWithoutToken ==
    /\ out.kind = "update_profile"
    /\ NoBearer(out.req.headers)
    /\ users # {}

\* C7: a request whose token fails verification is answered 403 with one and
\* the same response for a bad signature, a malformed token and an expired
\* one; the handler does not run.
InvalidTokenUniformlyRejected ==
    [][(/\ out'.kind \in ProtectedKinds
        /\ ~NoBearer(out'.req.headers)
        /\ JwtVerifyError(BearerToken(out'.req.headers), JWT_SECRET, now) # "none")
         => /\ Wire(out') =
                 [status |-> 403, body |-> "message" :> "Invalid or expired token"]
            /\ out'.branch = "gate_403"
            /\ out'.user = NoUser
            /\ UNCHANGED <<users, pending, issued>>]_vars

\* a token of the client's own, refused because it expired
ExpiredTokenRefused ==
    /\ out.kind \in ProtectedKinds
    /\ out.branch = "gate_403"
    /\ BearerToken(out.req.headers) \in issued
    /\ JwtVerifyError(BearerToken(out.req.headers), JWT_SECRET, now) = "jwt expired"

\* C8: the handler of a protected route runs exactly when the request carries
\* an issued, unexpired token, and then req.user is the account id and email
\* embedded in that token at issuance.
HandlerRunsWithTokenIdentity ==
    out.kind \in ProtectedKinds =>
        LET valid == /\ ~NoBearer(out.req.headers)
                     /\ BearerToken(out.req.headers) \in issued
                     /\ BeforeSecond(now, BearerToken(out.req.headers).exp)
        IN /\ out.branch \in HandlerBranches <=> valid
           /\ valid => /\ out.user.userId = BearerToken(out.req.headers).userId
                       /\ out.user.email = BearerToken(out.req.headers).email
                       /\ \E u \in users : u.id = out.user.userId
           /\ out.branch \in HandlerBranches => out.user # NoUser

\* a handler ran for the holder of a token
HandlerRan ==
    /\ out.kind = "get_profile"
    /\ out.branch = "ok"
    /\ out.user.userId = BearerToken(out.req.headers).userId

\* the gate lets a request with this token through at time t
GateAccepts(tok, t) ==
    authenticateToken(Authorization(<<"Bearer", tok>>), t).verdict = "next"

PasswordMismatchRejected ==
    [][\A s \in Slots, body \in SignUpBodies :
         (/\ out'.kind = "signup"
          /\ body.password # body.confirmPassword
          /\ SignUpCheck(s, body))
         => /\ out'.kind = "signup"
            /\ out'.branch = "validation"
            /\ out'.status = 400
            /\ "token" \notin DOMAIN out'.body
            /\ UNCHANGED <<users, pending, issued>>]_vars

\* a request with all fields present and a confirmation that does not match
MismatchAnswered ==
    /\ out.kind = "signup"
    /\ out.req.password # out.req.confirmPassword
    /\ Truthy(out.req.firstName)
    /\ Len(out.req.password) >= MinPasswordLength
    /\ Wire(out) = [status |-> 400, body |-> "message" :> "Passwords do not match"]

\* C12: no revocation: a token the gate accepts now is still accepted after
\* any step of the system (profile and medical updates, signins, signups)
\* as long as the clock has not reached its expiry.
NoRevocation ==
    [][\A tok \in issued :
         (GateAccepts(tok, now) /\ BeforeSecond(now', tok.exp))
            => GateAccepts(tok, now)']_vars

\* a token let through although its account's email was changed after issuance
AcceptedAfterAccountChanged ==
    /\ out.kind = "get_profile"
    /\ out.branch = "ok"
    /\ BearerToken(out.req.headers) \in issued
    /\ out.body["user"].email # BearerToken(out.req.headers).email
    /\ out.body["user"].notes = "n1"

\* the response carries a token signed for the same account id and email as
\* the earlier issuance r
ReissuedFor(r) ==
    /\ "token" \in DOMAIN out.body
    /\ out.body["token"].userId = r.token.userId
    /\ out.body["token"].email = r.token.email

\* C13 (as stated): a token signed for the same account id and email at a
\* different instant than an earlier one differs from it.
TokensOfDifferentInstantsDiffer ==
    \A r \in issuedAt :
        (ReissuedFor(r) /\ r.at # now) => out.body["token"] # r.token

\* C13 (amended): a token signed for the same account id and email in a
\* different second of the clock than an earlier one differs from it.
TokensOfDifferentSecondsDiffer ==
    \A r \in issuedAt :
        (ReissuedFor(r) /\ UnixSeconds(r.at) # UnixSeconds(now))
            => out.body["token"] # r.token

\* a signin token for the account of a signup token, signed in a later second
SignInTokenOfLaterSecond ==
    \E r \in issuedAt :
        /\ out.kind = "signin"
        /\ ReissuedFor(r)
        /\ UnixSeconds(r.at) < UnixSeconds(now)
        /\ out.body["token"].iat > r.token.iat

\* C14: a 500 response sent while NODE_ENV is not "development" (env "any":
\* the handler sends it whatever NODE_ENV is) carries the generic message
\* only, no detail text of the internal error, on every endpoint.
InternalErrorDetailsSuppressed ==
    (out.status = 500 /\ out.env # "development")
        => DOMAIN out.body = {"message"}

\* C15: once a signup with email E and password P was answered 201, a signin
\* with E (in any spelling of the same normalized email) and P is answered
\* 200 with a token and the account, and a signin with E and another
\* (non-empty) password is answered with the 401 AuthError.
SignInAfterSignUp ==
    \A r \in signedUp :
        (/\ out.kind = "signin"
         /\ NormalizeEmail(out.req.email) = r.email
         /\ TruthyText(out.req.password))
        => IF out.req.password = r.password
           THEN /\ out.status = 200
                /\ {"token", "user"} \subseteq DOMAIN out.body
           ELSE Wire(out) = Wire(SignInBadPassword)

\* the document a protected route returns
ReturnedDocument ==
    IF out.kind = "update_medical" THEN out.body ELSE out.body["user"]

\* C16: with requests of different valid tokens in flight together, the
\* handler of each request sees the identity of the token of its own
\* request, and the document it returns is that of its own account.
HandlerSeesOwnIdentity ==
    (out.kind \in ProtectedKinds /\ out.branch \in HandlerBranches)
        => /\ out.user = JwtDecoded(BearerToken(out.req.headers))
           /\ out.branch = "ok" =>
                 ReturnedDocument.id = BearerToken(out.req.headers).userId

\* a handler answers its request while a request of another account's token,
\* which passed the gate, is still in flight
AnsweredWhileOtherInFlight ==
    /\ out.kind \in ProtectedKinds
    /\ out.branch = "ok"
    /\ \E s \in Slots :
          /\ ~Idle(s)
          /\ pending[s][1].user.userId # out.user.userId

\* the 400 answer with this message, and nothing stored or left pending
RefusedWith(message) ==
    /\ Wire(out') = [status |-> 400, body |-> "message" :> message]
    /\ UNCHANGED <<users, pending, issued>>

\* C17: signup checks required fields, then the confirmation, then the
\* minimum length (6), then the existing email: the first check a request
\* fails decides its answer, and a request failing any of them stores nothing
\* and leaves no save pending.
SignUpCheckOrder ==
    [][\A s \in Slots, body \in SignUpBodies :
         (out'.kind \in {"signup", "none"} /\ SignUpCheck(s, body)) =>
            LET missing == body.firstName = <<>> \/ body.lastName = <<>>
                             \/ body.email = <<>> \/ body.password = ""
                mismatch == body.password # body.confirmPassword
                short == Len(body.password) < 6
                taken == \E u \in users : u.email = NormalizeEmail(body.email)
            IN /\ missing => RefusedWith("All required fields must be provided")
               /\ (~missing /\ mismatch) => RefusedWith("Passwords do not match")
               /\ (~missing /\ ~mismatch /\ short)
                     => RefusedWith("Password must be at least 6 characters long")
               /\ (~missing /\ ~mismatch /\ ~short /\ taken)
                     => RefusedWith("User with this email already exists")
               /\ (~missing /\ ~mismatch /\ ~short /\ ~taken)
                     => pending'[s] = <<body>>]_vars

\* mismatching passwords and an already registered email: ValidationError
MismatchBeforeConflict ==
    /\ out.kind = "signup"
    /\ out.req.password # out.req.confirmPassword
    /\ \E u \in users : u.email = NormalizeEmail(out.req.email)
    /\ Wire(out) = [status |-> 400, body |-> "message" :> "Passwords do not match"]

\* C18: in every reachable state the stored password of every account is a
\* digest produced by the Password Hasher, never a string a client supplied.
StoredPasswordsAreDigests ==
    \A u \in users : u.password.bcrypt

\* the update document the handler of the request r hands to the store
SentUpdate(r) ==
    IF r.kind = "update_profile"
    THEN StripCredentials(r.req.body)
    ELSE "$set" :> MedicalUpdateData(r.req.body)

====
